---- MODULE Spec2Model ----
(***************************************************************************)
(* The to-device message handler, synapse/handlers/devicemessage.py        *)
(* (class DeviceMessageHandler): on_direct_to_device_edu receives EDUs     *)
(* from remote homeservers, send_device_message handles a local user's     *)
(* request.  Each call is one coroutine; it yields at its awaits, so the   *)
(* calls interleave between awaits and never inside synchronous code.      *)
(* One action is: resume from the previous await, run the synchronous code *)
(* up to the next await, and that await's effect on the collaborator.      *)
(***************************************************************************)
EXTENDS Integers, Sequences, FiniteSets, TLC

\* ------------------------------------------------------------------ bounds
\* Calls in one behaviour: the slots of the model.
MaxOps == 3
\* Calls of the two handlers interleaved in one behaviour.
MaxCalls == 2
\* Recipient users of one request of the fan-out behaviours.
MaxFanout == 3
\* Recipient users in one generated messages map.
MaxRecipients == 2
\* Tokens of one rate limiter bucket (rc_key_requests.burst_count); the
\* rate (per_second) is 0, so a bucket never refills.
BurstCount == 1
\* Size of the pool random_string draws the EDU message ids from.
NumMessageIds == 4

\* ------------------------------------------------------- identifiers, values
\* A dict's missing key (dict.get gives None).
None == "None"

\* hs.hostname: the server name of this homeserver.
ServerName == "hs"

\* User ids are <<localpart, domain>>; an id with no domain part is unparsable.
Alice == <<"alice", "hs">>
Bob == <<"bob", "hs">>
Carol == <<"carol", "r1">>
Dave == <<"dave", "r1">>
Erin == <<"erin", "r2">>
Bogus == <<"bogus">>

\* UserID.from_string raises SynapseError for an id without a domain.
ValidUserId(user_id) == Len(user_id) = 2

\* get_domain_from_id: the part after the first ":".
get_domain_from_id(user_id) == user_id[2]

is_mine_any(user_id) == ValidUserId(user_id)
\* hs.is_mine(UserID.from_string(user_id)); FALSE stands for "raises" too,
\* the callers test ValidUserId first where the two differ.
is_mine(user_id) == ValidUserId(user_id) /\ get_domain_from_id(user_id) = ServerName

\* ToDeviceEventTypes.RoomKeyRequest and one other event type.
RoomKeyRequest == "m.room_key_request"
Encrypted == "m.room.encrypted"
MessageTypes == {RoomKeyRequest, Encrypted}

\* Python truthiness of a dict value that is a string or None.
Truthy(v) == v # None /\ v # ""

\* Message contents: the three keys the handler reads.
Content(req, dev, act) == [request_id |-> req, requesting_device_id |-> dev, action |-> act]

\* An empty dict, and d[k] = v.
EmptyDict == [k \in {} |-> None]
DictSet(d, k, v) == [x \in (DOMAIN d) \cup {k} |-> IF x = k THEN v ELSE d[x]]

\* The next device of a dict in iteration order (the model iterates by name).
FirstDevice(devs) == IF "D1" \in devs THEN "D1" ELSE "D2"

\* ---------------------------------------------------- the store's tables
\* store.get_rooms_for_user: the rooms this server shares with a remote user.
get_rooms_for_user(user_id) ==
  IF user_id \in {Carol, Dave} THEN {"!room"} ELSE {}

\* store.get_cached_devices_for_user: the cached device list of a remote user.
get_cached_devices_for_user(user_id) ==
  IF user_id = Carol THEN {"D1"} ELSE {}

VARIABLES
  ops,               \* the calls: each coroutine's locals and position
  device_inbox,      \* store: pending device messages, with their stream position
  federation_outbox, \* store: EDUs waiting for the federation sender
  stream_pos,        \* store: the last stream position handed out
  ratelimiter,       \* Ratelimiter: tokens taken from each bucket
  stale,             \* store: users whose device list cache is marked stale
  resyncs,           \* background resync tasks started, and their state
  used_ids,          \* message ids random_string has produced
  msc3944_enabled,   \* hs.config.experimental.msc3944_enabled
  has_federation_sender, \* hs.should_send_federation()
  appends,           \* log: the store's append calls
  notified,          \* log: notifier.on_new_event calls
  ratelimit_log,     \* log: can_do_action calls and their answers
  stale_log,         \* log: mark_remote_users_device_caches_as_stale calls
  deletes,           \* log: delete_device_message calls and their answers
  hints,             \* log: federation_sender.send_device_messages calls
  to_device_writers, \* hs.config.worker.writers.to_device, the same on every instance
  edu_handlers,      \* federation registry of each instance: what __init__ registered
  routed             \* log: EDUs that arrived at an instance, and where they were handled

vars == <<ops, device_inbox, federation_outbox, stream_pos, ratelimiter, stale,
          resyncs, used_ids, msc3944_enabled, has_federation_sender, appends,
          notified, ratelimit_log, stale_log, deletes, hints,
          to_device_writers, edu_handlers, routed>>

\* What the startup of the instances sets and the routing of EDUs logs.
registry_vars == <<to_device_writers, edu_handlers, routed>>

OpIds == 1..MaxOps
Callers == 1..MaxCalls

\* A call that has not started.  seen is history: the pending rows of the
\* device when the call last came to one of its messages.
NoOp ==
  [kind |-> "none", pc |-> "none", origin |-> None, sender |-> Alice,
   device_id |-> None, message_type |-> Encrypted, message_id |-> None,
   messages |-> <<>>, idx |-> 1, devs |-> {}, to_delete |-> {},
   previous_request_deleted |-> FALSE, local_messages |-> EmptyDict,
   remote_messages |-> EmptyDict, last_stream_id |-> 0, warned |-> FALSE,
   seen |-> {}]

\* The instances of the deployment; the handler of the actions below runs
\* on the first.
InstanceName == "master"
Instances == {"master", "worker1", "worker2"}

\* What register_edu_handler and register_instances_for_edu leave in the
\* registry of an instance for EduTypes.DIRECT_TO_DEVICE.
NotRegistered == [kind |-> "none"]
EduHandler(handler) == [kind |-> "edu_handler", handler |-> handler]
EduInstances(instances) == [kind |-> "instances", instances |-> instances]

\* An instance that registers the handler whatever the writers are.
register_always(instance_name, writers) ==
  EduHandler("on_direct_to_device_edu")

\* Lines 61-71: the registration __init__ makes on an instance.
register(instance_name, writers) ==
  IF instance_name \in writers
    THEN EduHandler("on_direct_to_device_edu")
    ELSE EduInstances(writers)

\* __init__ on the to-device writer: nothing stored, every bucket full, no
\* call in flight, the handler registered.
Init ==
  /\ to_device_writers = {InstanceName}
  /\ edu_handlers = [n \in Instances |->
       IF n = InstanceName THEN register(n, {InstanceName}) ELSE NotRegistered]
  /\ routed = <<>>
  /\ ops = [i \in OpIds |-> NoOp]
  /\ device_inbox = {}
  /\ federation_outbox = {}
  /\ stream_pos = 0
  /\ ratelimiter = [k \in {} |-> 0]
  /\ stale = {}
  /\ resyncs = <<>>
  /\ used_ids = {}
  /\ msc3944_enabled \in BOOLEAN
  /\ has_federation_sender \in BOOLEAN
  /\ appends = <<>>
  /\ notified = <<>>
  /\ ratelimit_log = <<>>
  /\ stale_log = <<>>
  /\ deletes = <<>>
  /\ hints = <<>>

\* ------------------------------------------------------------ rate limiter
\* Tokens taken so far from a bucket.
Taken(key) == IF key \in DOMAIN ratelimiter THEN ratelimiter[key] ELSE 0

\* Ratelimiter.can_do_action: one token left in the bucket.
can_do_action(key) == Taken(key) < BurstCount

\* The bucket table after can_do_action(key): an allowed call takes a token.
TakeToken(key) ==
  IF can_do_action(key) THEN DictSet(ratelimiter, key, Taken(key) + 1) ELSE ratelimiter

\* ------------------------------------------------------------------ inputs
\* by_device dicts (device id -> content) of the generated maps.
KnownRequest == Content("r1", "D1", "request")
UnknownRequest == Content("r1", "DX", "request")
Cancellation == Content("r1", "D1", "request_cancellation")
EmptyIdRequest == Content("", "D1", "request")
EmptyIdCancellation == Content("", "D1", "request_cancellation")
Plain == Content(None, None, None)

\* Every messages map (a dict in iteration order: a sequence of
\* <<user_id, by_device>> with distinct users) over the given users and dicts.
MessagesOver(users, by_devices, n) ==
  { m \in UNION { [1..k -> users \X by_devices] : k \in 0..n } :
      \A a, b \in DOMAIN m : a # b => m[a][1] # m[b][1] }

\* The EDUs a remote server may send: content of on_direct_to_device_edu.
InboundByDevice ==
  { EmptyDict,
    [d \in {"D1"} |-> KnownRequest],
    [d \in {"D1", "D2"} |-> IF d = "D1" THEN UnknownRequest ELSE Plain] }

InboundEdus ==
  { [origin |-> o, sender |-> s, message_type |-> t, message_id |-> "m1", messages |-> m] :
      o \in {"r1", "r2"}, s \in {Carol, Erin}, t \in MessageTypes,
      m \in MessagesOver({Alice, Bob, Carol, Bogus}, InboundByDevice, MaxRecipients) }

\* ------------------------------------------------ on_direct_to_device_edu
\* Lines 104-113: a call with one of the given EDUs: the locals; a sender of
\* another domain than the origin is logged as dropped, and the code goes on
\* (there is no return).
on_direct_to_device_edu_start(i, edus) ==
  /\ ops[i].kind = "none"
  /\ \A j \in OpIds : j < i => ops[j].kind # "none"
  /\ \E content \in edus :
       ops' = [ops EXCEPT ![i] =
         [NoOp EXCEPT !.kind = "in", !.pc = "loop", !.origin = content.origin,
                      !.sender = content.sender, !.message_type = content.message_type,
                      !.message_id = content.message_id, !.messages = content.messages,
                      !.warned = (content.origin # get_domain_from_id(content.sender))]]
  /\ UNCHANGED registry_vars
  /\ UNCHANGED <<device_inbox, federation_outbox, stream_pos, ratelimiter, stale,
                 resyncs, used_ids, msc3944_enabled, has_federation_sender, appends,
                 notified, ratelimit_log, stale_log, deletes, hints>>

\* Lines 136-143: each content wrapped with the EDU's type and sender.
messages_by_device(by_device, message_type, sender_user_id) ==
  [d \in DOMAIN by_device |->
     [content |-> by_device[d], type |-> message_type, sender |-> sender_user_id]]

InboundRatelimitedAlways(message_type) == TRUE
\* Lines 124: key requests are rate limited.
InboundRatelimited(message_type) == message_type = RoomKeyRequest

\* Lines 114-144: one recipient of the EDU, up to the unknown device check.
on_direct_to_device_edu_user(i) ==
  LET o == ops[i]
      user_id == o.messages[o.idx][1]
      by_device == o.messages[o.idx][2]
      key == <<o.sender, None>>
  IN
  /\ o.kind = "in" /\ o.pc = "loop" /\ o.idx <= Len(o.messages)
  /\ IF ~is_mine(user_id)
       THEN \* raise SynapseError(400, "Not a user here")
            /\ ops' = [ops EXCEPT ![i].pc = "failed"]
            /\ UNCHANGED <<ratelimiter, ratelimit_log>>
     ELSE IF by_device = EmptyDict
       THEN /\ ops' = [ops EXCEPT ![i].idx = o.idx + 1]
            /\ UNCHANGED <<ratelimiter, ratelimit_log>>
     ELSE IF InboundRatelimited(o.message_type) /\ ~can_do_action(key)
       THEN /\ ops' = [ops EXCEPT ![i].idx = o.idx + 1]
            /\ ratelimit_log' = Append(ratelimit_log,
                 [op |-> i, key |-> key, user_id |-> user_id, allowed |-> FALSE])
            /\ UNCHANGED ratelimiter
     ELSE /\ ops' = [ops EXCEPT ![i].pc = "check",
                ![i].local_messages = DictSet(o.local_messages, user_id,
                   messages_by_device(by_device, o.message_type, o.sender))]
          /\ IF InboundRatelimited(o.message_type)
               THEN /\ ratelimiter' = TakeToken(key)
                    /\ ratelimit_log' = Append(ratelimit_log,
                         [op |-> i, key |-> key, user_id |-> user_id, allowed |-> TRUE])
               ELSE UNCHANGED <<ratelimiter, ratelimit_log>>
  /\ UNCHANGED registry_vars
  /\ UNCHANGED <<device_inbox, federation_outbox, stream_pos, stale, resyncs,
                 used_ids, msc3944_enabled, has_federation_sender, appends,
                 notified, stale_log, deletes, hints>>

\* Lines 176-179: the requesting_device_id of every content (None if absent).
requesting_device_ids(by_device) ==
  { by_device[d].requesting_device_id : d \in DOMAIN by_device }

unknown_devices_untracked(message_type, sender_user_id, by_device) ==
  IF message_type # RoomKeyRequest THEN {}
  ELSE requesting_device_ids(by_device) \ get_cached_devices_for_user(sender_user_id)
\* Lines 172-196: the devices that make _check_for_unknown_devices act.
unknown_devices(message_type, sender_user_id, by_device) ==
  IF message_type # RoomKeyRequest THEN {}
  ELSE IF get_rooms_for_user(sender_user_id) = {} THEN {}
  ELSE requesting_device_ids(by_device) \ get_cached_devices_for_user(sender_user_id)

\* A detector that awaits the resync it starts: the call stays suspended on the
\* background task.
check_for_unknown_devices_awaited(i) ==
  LET o == ops[i]
      by_device == o.messages[o.idx][2]
  IN
  /\ o.kind = "in" /\ o.pc = "check"
  /\ IF unknown_devices(o.message_type, o.sender, by_device) # {}
       THEN /\ ops' = [ops EXCEPT ![i].pc = "resync"]
            /\ stale' = stale \cup {o.sender}
            /\ stale_log' = Append(stale_log, [op |-> i, idx |-> o.idx, user_ids |-> {o.sender}])
            /\ resyncs' = Append(resyncs,
                 [op |-> i, idx |-> o.idx, user_ids |-> {o.sender}, state |-> "running"])
       ELSE /\ ops' = [ops EXCEPT ![i].pc = "loop", ![i].idx = o.idx + 1]
            /\ UNCHANGED <<stale, stale_log, resyncs>>
  /\ UNCHANGED registry_vars
  /\ UNCHANGED <<device_inbox, federation_outbox, stream_pos, ratelimiter,
                 used_ids, msc3944_enabled, has_federation_sender, appends,
                 notified, ratelimit_log, deletes, hints>>

\* Lines 146-148 and 162-206: _check_for_unknown_devices for the recipient
\* just added; the resync is started in the background and not awaited.
check_for_unknown_devices(i) ==
  LET o == ops[i]
      by_device == o.messages[o.idx][2]
  IN
  /\ o.kind = "in" /\ o.pc = "check"
  /\ ops' = [ops EXCEPT ![i].pc = "loop", ![i].idx = o.idx + 1]
  /\ IF unknown_devices(o.message_type, o.sender, by_device) # {}
       THEN /\ stale' = stale \cup {o.sender}
            /\ stale_log' = Append(stale_log, [op |-> i, idx |-> o.idx, user_ids |-> {o.sender}])
            /\ resyncs' = Append(resyncs,
                 [op |-> i, idx |-> o.idx, user_ids |-> {o.sender}, state |-> "running"])
       ELSE UNCHANGED <<stale, stale_log, resyncs>>
  /\ UNCHANGED registry_vars
  /\ UNCHANGED <<device_inbox, federation_outbox, stream_pos, ratelimiter,
                 used_ids, msc3944_enabled, has_federation_sender, appends,
                 notified, ratelimit_log, deletes, hints>>

\* The background task of run_in_background ends, well or badly; nobody waits.
multi_user_device_resync(k) ==
  /\ k \in DOMAIN resyncs /\ resyncs[k].state = "running"
  /\ \E outcome \in {"done", "failed"} :
       resyncs' = [resyncs EXCEPT ![k].state = outcome]
  /\ UNCHANGED registry_vars
  /\ UNCHANGED <<ops, device_inbox, federation_outbox, stream_pos, ratelimiter, stale,
                 used_ids, msc3944_enabled, has_federation_sender, appends,
                 notified, ratelimit_log, stale_log, deletes, hints>>

\* ------------------------------------------------------------- the store
\* The inbox rows of one batch: every message of it carries the batch's position.
InboxRows(local_messages, stream_id) ==
  UNION { { [stream_id |-> stream_id, user_id |-> u, device_id |-> d,
             message |-> local_messages[u][d]] : d \in DOMAIN local_messages[u] } :
          u \in DOMAIN local_messages }

\* The outbox rows of one batch: one EDU for each destination.
OutboxRows(remote_edu_contents, stream_id) ==
  { [stream_id |-> stream_id, destination |-> dest, edu |-> remote_edu_contents[dest]] :
      dest \in DOMAIN remote_edu_contents }

\* store.get_all_device_messages(user_id, device_id): the pending rows of a device.
get_all_device_messages(user_id, device_id) ==
  { r \in device_inbox : r.user_id = user_id /\ r.device_id = device_id }

\* --------------------------------------- on_direct_to_device_edu, the end
\* The position the handler hands to the notifier: what its append returned.
NotifiedPositionCurrent(o) == stream_pos
NotifiedPosition(o) == o.last_stream_id

\* Every recipient of the call, announced or not.
NotifiedUsersAll(o) == { o.messages[k][1] : k \in DOMAIN o.messages }

\* Lines 159 and 341: users=local_messages.keys().
NotifiedUsers(o) == DOMAIN o.local_messages

\* Lines 150-154: await store.add_messages_from_remote_to_device_inbox; the
\* store takes the next position and stores the batch, the call is resumed later.
on_direct_to_device_edu_append(i) ==
  LET o == ops[i] IN
  /\ o.kind = "in" /\ o.pc = "loop" /\ o.idx > Len(o.messages)
  /\ stream_pos' = stream_pos + 1
  /\ device_inbox' = device_inbox \cup InboxRows(o.local_messages, stream_pos + 1)
  /\ appends' = Append(appends,
       [op |-> i, call |-> "add_messages_from_remote_to_device_inbox",
        origin |-> o.origin, message_id |-> o.message_id,
        local_messages |-> o.local_messages, remote_edu_contents |-> EmptyDict,
        pos |-> stream_pos + 1])
  /\ ops' = [ops EXCEPT ![i].pc = "notify", ![i].last_stream_id = stream_pos + 1]
  /\ UNCHANGED registry_vars
  /\ UNCHANGED <<federation_outbox, ratelimiter, stale, resyncs, used_ids,
                 msc3944_enabled, has_federation_sender, notified, ratelimit_log,
                 stale_log, deletes, hints>>

\* Lines 152-154: the awaited store call raises: nothing is stored and no
\* position is taken (logged with position 0); there is no try around the
\* await, the exception leaves the handler.
on_direct_to_device_edu_append_fails(i) ==
  LET o == ops[i] IN
  /\ o.kind = "in" /\ o.pc = "loop" /\ o.idx > Len(o.messages)
  /\ appends' = Append(appends,
       [op |-> i, call |-> "add_messages_from_remote_to_device_inbox",
        origin |-> o.origin, message_id |-> o.message_id,
        local_messages |-> o.local_messages, remote_edu_contents |-> EmptyDict,
        pos |-> 0])
  /\ ops' = [ops EXCEPT ![i].pc = "store_failed"]
  /\ UNCHANGED registry_vars
  /\ UNCHANGED <<device_inbox, federation_outbox, stream_pos, ratelimiter, stale,
                 resyncs, used_ids, msc3944_enabled, has_federation_sender,
                 notified, ratelimit_log, stale_log, deletes, hints>>

\* Lines 156-160: notifier.on_new_event, right after the append returned.
on_direct_to_device_edu_notify(i) ==
  LET o == ops[i] IN
  /\ o.kind = "in" /\ o.pc = "notify"
  /\ notified' = Append(notified,
       [op |-> i, pos |-> NotifiedPosition(o), users |-> NotifiedUsers(o),
        current |-> stream_pos])
  /\ ops' = [ops EXCEPT ![i].pc = "done"]
  /\ UNCHANGED registry_vars
  /\ UNCHANGED <<device_inbox, federation_outbox, stream_pos, ratelimiter, stale,
                 resyncs, used_ids, msc3944_enabled, has_federation_sender, appends,
                 ratelimit_log, stale_log, deletes, hints>>

\* ---------------------------------------------------- send_device_message
\* Lines 222-227: a call with one of the given requests of a requester
\* (user, device_id): the locals.
send_device_message_start(i, requests) ==
  /\ ops[i].kind = "none"
  /\ \A j \in OpIds : j < i => ops[j].kind # "none"
  /\ \E request \in requests :
       ops' = [ops EXCEPT ![i] =
         [NoOp EXCEPT !.kind = "out", !.pc = "loop", !.sender = request.user,
                      !.device_id = request.device_id,
                      !.message_type = request.message_type,
                      !.messages = request.messages]]
  /\ UNCHANGED registry_vars
  /\ UNCHANGED <<device_inbox, federation_outbox, stream_pos, ratelimiter, stale,
                 resyncs, used_ids, msc3944_enabled, has_federation_sender, appends,
                 notified, ratelimit_log, stale_log, deletes, hints>>

OutboundRatelimitedNever(message_type, user_id, sender_user_id) ==
  FALSE
\* Lines 243-246: local cross-user key requests are rate limited.
OutboundRatelimited(message_type, user_id, sender_user_id) ==
  message_type = RoomKeyRequest /\ user_id # sender_user_id

DestinationLocalpart(user_id) == user_id[1]
\* Line 312: the destination of a remote recipient.
Destination(user_id) == get_domain_from_id(user_id)

\* Line 313: remote_messages.setdefault(destination, {})[user_id] = by_device.
AddRemote(remote_messages, user_id, by_device) ==
  LET destination == Destination(user_id)
      old == IF destination \in DOMAIN remote_messages
               THEN remote_messages[destination] ELSE EmptyDict
  IN DictSet(remote_messages, destination, DictSet(old, user_id, by_device))

\* Line 310: local_messages.setdefault(user_id, {})[device_id] = message.
AddLocal(local_messages, user_id, device_id, message) ==
  LET old == IF user_id \in DOMAIN local_messages
               THEN local_messages[user_id] ELSE EmptyDict
  IN DictSet(local_messages, user_id, DictSet(old, device_id, message))

\* An unparsable user id that is passed over: the loop goes to the next entry.
from_string_skips(o) == [o EXCEPT !.idx = o.idx + 1]

\* Line 260: UserID.from_string raises SynapseError out of the loop and out of
\* the handler: the call ends here.
from_string_raises(o) == [o EXCEPT !.pc = "failed"]

\* Lines 228-260 and 311-313: one recipient user: the rate limit, then the
\* parse of the user id, then local (the device loop) or remote.
send_device_message_user(i) ==
  LET o == ops[i]
      user_id == o.messages[o.idx][1]
      by_device == o.messages[o.idx][2]
      key == <<o.sender, o.device_id>>
      limited == OutboundRatelimited(o.message_type, user_id, o.sender)
      allowed == can_do_action(key)
  IN
  /\ o.kind = "out" /\ o.pc = "loop" /\ o.idx <= Len(o.messages)
  /\ IF limited
       THEN /\ ratelimiter' = TakeToken(key)
            /\ ratelimit_log' = Append(ratelimit_log,
                 [op |-> i, key |-> key, user_id |-> user_id, allowed |-> allowed])
       ELSE UNCHANGED <<ratelimiter, ratelimit_log>>
  /\ IF limited /\ ~allowed
       THEN ops' = [ops EXCEPT ![i].idx = o.idx + 1]
     ELSE IF ~ValidUserId(user_id)
       THEN ops' = [ops EXCEPT ![i] = from_string_raises(o)]
     ELSE IF is_mine(user_id)
       THEN IF by_device = EmptyDict
              THEN ops' = [ops EXCEPT ![i].idx = o.idx + 1]
              ELSE ops' = [ops EXCEPT ![i].pc = "device", ![i].devs = DOMAIN by_device]
     ELSE ops' = [ops EXCEPT ![i].idx = o.idx + 1,
                    ![i].remote_messages = AddRemote(o.remote_messages, user_id, by_device)]
  /\ UNCHANGED registry_vars
  /\ UNCHANGED <<device_inbox, federation_outbox, stream_pos, stale, resyncs,
                 used_ids, msc3944_enabled, has_federation_sender, appends,
                 notified, stale_log, deletes, hints>>

\* Lines 265-274: the dedup of key requests applies to this message.
DedupApplies(enabled, message_type, user_id, sender_user_id, message_content) ==
  /\ enabled
  /\ message_type = RoomKeyRequest
  /\ user_id = sender_user_id
  /\ Truthy(message_content.request_id)
  /\ Truthy(message_content.requesting_device_id)

\* A comparison that takes the action into account too.
SameRequestAndAction(orig_message, message_content) ==
  /\ orig_message.type = RoomKeyRequest
  /\ orig_message.content = message_content

\* Lines 282-292: a stored message is a key request with the same
\* (request_id, requesting_device_id); the action is not compared.
SameRequest(orig_message, message_content) ==
  /\ orig_message.type = RoomKeyRequest
  /\ orig_message.content.request_id = message_content.request_id
  /\ orig_message.content.requesting_device_id = message_content.requesting_device_id

\* Lines 298-301: the new message is a cancellation that found its request.
SuppressAlways(message_content, previous_request_deleted) ==
  message_content.action = "request_cancellation"
Suppress(message_content, previous_request_deleted) ==
  message_content.action = "request_cancellation" /\ previous_request_deleted

\* The call's position after a device: the next device, or the next user.
AfterDevice(o, device_id) ==
  IF o.devs \ {device_id} = {}
    THEN [o EXCEPT !.devs = {}, !.to_delete = {}, !.previous_request_deleted = FALSE,
                   !.pc = "loop", !.idx = o.idx + 1]
    ELSE [o EXCEPT !.devs = o.devs \ {device_id}, !.to_delete = {},
                   !.previous_request_deleted = FALSE, !.pc = "device"]

\* Lines 305-310: the message is added to the local batch.
WithMessage(o, user_id, device_id, message_content) ==
  [o EXCEPT !.local_messages = AddLocal(o.local_messages, user_id, device_id,
     [content |-> message_content, type |-> o.message_type, sender |-> o.sender])]

\* Lines 261-281 and 305-310: one device of a local recipient: with the dedup,
\* await store.get_all_device_messages and keep the positions of the matching
\* stored requests; without it, add the message.
send_device_message_device(i) ==
  LET o == ops[i]
      user_id == o.messages[o.idx][1]
      device_id == FirstDevice(o.devs)
      message_content == o.messages[o.idx][2][device_id]
  IN
  /\ o.kind = "out" /\ o.pc = "device"
  /\ IF DedupApplies(msc3944_enabled, o.message_type, user_id, o.sender, message_content)
       THEN ops' = [ops EXCEPT ![i].pc = "delete",
                      ![i].seen = get_all_device_messages(user_id, device_id),
                      ![i].previous_request_deleted = FALSE,
                      ![i].to_delete =
                         { r.stream_id : r \in { x \in get_all_device_messages(user_id, device_id) :
                                                    SameRequest(x.message, message_content) } }]
       ELSE ops' = [ops EXCEPT ![i] =
                      [AfterDevice(WithMessage(o, user_id, device_id, message_content), device_id)
                         EXCEPT !.seen = get_all_device_messages(user_id, device_id)]]
  /\ UNCHANGED registry_vars
  /\ UNCHANGED <<device_inbox, federation_outbox, stream_pos, ratelimiter, stale,
                 resyncs, used_ids, msc3944_enabled, has_federation_sender, appends,
                 notified, ratelimit_log, stale_log, deletes, hints>>

\* The smallest of a set of stream positions.
Min(S) == CHOOSE x \in S : \A y \in S : x <= y

\* store.delete_device_message(stream_id): the rows at that position go.
delete_device_message(stream_id) ==
  { r \in device_inbox : r.stream_id # stream_id }

\* Lines 293-296: await store.delete_device_message for the next match.
send_device_message_delete(i) ==
  LET o == ops[i]
      stream_id == Min(o.to_delete)
      deleted == \E r \in device_inbox : r.stream_id = stream_id
  IN
  /\ o.kind = "out" /\ o.pc = "delete" /\ o.to_delete # {}
  /\ device_inbox' = delete_device_message(stream_id)
  /\ deletes' = Append(deletes,
       [op |-> i, idx |-> o.idx, device_id |-> FirstDevice(o.devs),
        stream_id |-> stream_id, deleted |-> deleted])
  /\ ops' = [ops EXCEPT ![i].to_delete = o.to_delete \ {stream_id},
                        ![i].previous_request_deleted = o.previous_request_deleted \/ deleted]
  /\ UNCHANGED registry_vars
  /\ UNCHANGED <<federation_outbox, stream_pos, ratelimiter, stale, resyncs,
                 used_ids, msc3944_enabled, has_federation_sender, appends,
                 notified, ratelimit_log, stale_log, hints>>

\* Lines 298-310: after the deletes, the cancellation of a deleted request
\* is dropped and any other message is added to the local batch.
send_device_message_message(i) ==
  LET o == ops[i]
      user_id == o.messages[o.idx][1]
      device_id == FirstDevice(o.devs)
      message_content == o.messages[o.idx][2][device_id]
  IN
  /\ o.kind = "out" /\ o.pc = "delete" /\ o.to_delete = {}
  /\ IF Suppress(message_content, o.previous_request_deleted)
       THEN ops' = [ops EXCEPT ![i] = AfterDevice(o, device_id)]
       ELSE ops' = [ops EXCEPT ![i] =
                      AfterDevice(WithMessage(o, user_id, device_id, message_content), device_id)]
  /\ UNCHANGED registry_vars
  /\ UNCHANGED <<device_inbox, federation_outbox, stream_pos, ratelimiter, stale,
                 resyncs, used_ids, msc3944_enabled, has_federation_sender, appends,
                 notified, ratelimit_log, stale_log, deletes, hints>>

\* The pool of message ids.
MessageIds == 1..NumMessageIds

\* random_string(16) for each destination: ids not produced before, all different.
random_strings(destinations) ==
  { f \in [destinations -> MessageIds \ used_ids] :
      \A a, b \in destinations : a # b => f[a] # f[b] }

\* Lines 317-330: one EDU for each destination of remote_messages.
remote_edu_contents(o, message_id) ==
  [destination \in DOMAIN o.remote_messages |->
     [messages |-> o.remote_messages[destination], sender |-> o.sender,
      type |-> o.message_type, message_id |-> message_id[destination]]]

\* Lines 315-336: the EDUs are built and await store.add_messages_to_device_inbox
\* stores both batches at the next position; the call is resumed later.
send_device_message_append(i) ==
  LET o == ops[i] IN
  /\ o.kind = "out" /\ o.pc = "loop" /\ o.idx > Len(o.messages)
  /\ \E message_id \in random_strings(DOMAIN o.remote_messages) :
       LET edus == remote_edu_contents(o, message_id) IN
       /\ used_ids' = used_ids \cup { message_id[d] : d \in DOMAIN message_id }
       /\ federation_outbox' = federation_outbox \cup OutboxRows(edus, stream_pos + 1)
       /\ appends' = Append(appends,
            [op |-> i, call |-> "add_messages_to_device_inbox",
             local_messages |-> o.local_messages, remote_edu_contents |-> edus,
             pos |-> stream_pos + 1])
  /\ stream_pos' = stream_pos + 1
  /\ device_inbox' = device_inbox \cup InboxRows(o.local_messages, stream_pos + 1)
  /\ ops' = [ops EXCEPT ![i].pc = "notify", ![i].last_stream_id = stream_pos + 1]
  /\ UNCHANGED registry_vars
  /\ UNCHANGED <<ratelimiter, stale, resyncs, msc3944_enabled, has_federation_sender,
                 notified, ratelimit_log, stale_log, deletes, hints>>

\* A failing store call that is taken for a stored batch: the code goes on.
send_device_message_append_swallowed(i) ==
  LET o == ops[i] IN
  /\ o.kind = "out" /\ o.pc = "loop" /\ o.idx > Len(o.messages)
  /\ \E message_id \in random_strings(DOMAIN o.remote_messages) :
       /\ used_ids' = used_ids \cup { message_id[d] : d \in DOMAIN message_id }
       /\ appends' = Append(appends,
            [op |-> i, call |-> "add_messages_to_device_inbox",
             local_messages |-> o.local_messages,
             remote_edu_contents |-> remote_edu_contents(o, message_id),
             pos |-> 0])
  /\ ops' = [ops EXCEPT ![i].pc = "notify"]
  /\ UNCHANGED registry_vars
  /\ UNCHANGED <<device_inbox, federation_outbox, stream_pos, ratelimiter, stale,
                 resyncs, msc3944_enabled, has_federation_sender,
                 notified, ratelimit_log, stale_log, deletes, hints>>

\* Lines 315-336: the EDUs are built (the message ids are drawn) and the
\* awaited store.add_messages_to_device_inbox raises: nothing is stored and no
\* position is taken (logged with position 0); there is no try around the
\* await, the exception leaves the handler.
send_device_message_append_fails(i) ==
  LET o == ops[i] IN
  /\ o.kind = "out" /\ o.pc = "loop" /\ o.idx > Len(o.messages)
  /\ \E message_id \in random_strings(DOMAIN o.remote_messages) :
       /\ used_ids' = used_ids \cup { message_id[d] : d \in DOMAIN message_id }
       /\ appends' = Append(appends,
            [op |-> i, call |-> "add_messages_to_device_inbox",
             local_messages |-> o.local_messages,
             remote_edu_contents |-> remote_edu_contents(o, message_id),
             pos |-> 0])
  /\ ops' = [ops EXCEPT ![i].pc = "store_failed"]
  /\ UNCHANGED registry_vars
  /\ UNCHANGED <<device_inbox, federation_outbox, stream_pos, ratelimiter, stale,
                 resyncs, msc3944_enabled, has_federation_sender,
                 notified, ratelimit_log, stale_log, deletes, hints>>

\* A set of destinations as the sequence of calls made for it.
RECURSIVE HintCalls(_, _)
HintCalls(i, destinations) ==
  IF destinations = {} THEN <<>>
  ELSE LET d == CHOOSE x \in destinations : TRUE
       IN <<[op |-> i, destination |-> d]>> \o HintCalls(i, destinations \ {d})

\* The domain of every recipient of the call.
HintedDestinationsAll(o) == { o.messages[k][1][2] : k \in DOMAIN o.messages }

\* Line 345: for destination in remote_messages.keys().
HintedDestinations(o) == DOMAIN o.remote_messages

\* Lines 338-348: notifier.on_new_event right after the append returned, then
\* federation_sender.send_device_messages for each destination, if there is
\* a federation sender on this instance.
send_device_message_notify(i) ==
  LET o == ops[i] IN
  /\ o.kind = "out" /\ o.pc = "notify"
  /\ notified' = Append(notified,
       [op |-> i, pos |-> NotifiedPosition(o), users |-> NotifiedUsers(o),
        current |-> stream_pos])
  /\ hints' = IF has_federation_sender
                THEN hints \o HintCalls(i, HintedDestinations(o))
                ELSE hints
  /\ ops' = [ops EXCEPT ![i].pc = "done"]
  /\ UNCHANGED registry_vars
  /\ UNCHANGED <<device_inbox, federation_outbox, stream_pos, ratelimiter, stale,
                 resyncs, used_ids, msc3944_enabled, has_federation_sender, appends,
                 ratelimit_log, stale_log, deletes>>

\* ---------------------------------------------------------- specifications
\* The requests of the interleaved calls: key requests and other messages of
\* alice to herself, to bob and to carol.
OutboundByDevice ==
  { [d \in {"D1"} |-> KnownRequest], [d \in {"D1"} |-> Cancellation] }

OutboundRequests ==
  { [user |-> Alice, device_id |-> "D1", message_type |-> t, messages |-> m] :
      t \in MessageTypes,
      m \in MessagesOver({Alice, Bob, Carol}, OutboundByDevice, 1) }

\* The EDUs of the interleaved calls.
FewInboundEdus ==
  { e \in InboundEdus : Len(e.messages) <= 1 /\ e.origin = "r1" }

\* Calls of both handlers, interleaved at their awaits.
Next ==
  \/ \E i \in Callers : on_direct_to_device_edu_start(i, FewInboundEdus)
  \/ \E i \in Callers : on_direct_to_device_edu_user(i)
  \/ \E i \in Callers : check_for_unknown_devices(i)
  \/ \E i \in Callers : on_direct_to_device_edu_append(i)
  \/ \E i \in Callers : on_direct_to_device_edu_notify(i)
  \/ \E k \in 1..(MaxCalls * MaxRecipients) : multi_user_device_resync(k)
  \/ \E i \in Callers : send_device_message_start(i, OutboundRequests)
  \/ \E i \in Callers : send_device_message_user(i)
  \/ \E i \in Callers : send_device_message_device(i)
  \/ \E i \in Callers : send_device_message_delete(i)
  \/ \E i \in Callers : send_device_message_message(i)
  \/ \E i \in Callers : send_device_message_append(i)
  \/ \E i \in Callers : send_device_message_notify(i)

Spec == Init /\ [][Next]_vars

\* One EDU at a time, with every generated EDU: the inbound handler alone.
NextInbound ==
  \/ on_direct_to_device_edu_start(1, InboundEdus)
  \/ on_direct_to_device_edu_user(1)
  \/ check_for_unknown_devices(1)
  \/ on_direct_to_device_edu_append(1)
  \/ on_direct_to_device_edu_notify(1)
  \/ \E k \in 1..MaxRecipients : multi_user_device_resync(k)

SpecInbound == Init /\ [][NextInbound]_vars

\* ------------------------------------------------------------------ claims
\* The calls an append, a notification, a rate limiter answer, a stale mark
\* or a resync belongs to.
AppendsOf(i) == { k \in DOMAIN appends : appends[k].op = i }
NotifiedOf(i) == { k \in DOMAIN notified : notified[k].op = i }
RatelimitsOf(i) == { k \in DOMAIN ratelimit_log : ratelimit_log[k].op = i }
StaleMarksOf(i) == { k \in DOMAIN stale_log : stale_log[k].op = i }
ResyncsOf(i) == { k \in DOMAIN resyncs : resyncs[k].op = i }

\* An inbound EDU whose sender is not of the origin's domain.
Spoofed(o) ==
  o.kind = "in" /\ (~ValidUserId(o.sender) \/ o.sender[2] # o.origin)

\* C1: an inbound EDU whose sender's domain differs from the origin is never
\* persisted (no append call is made for it) and never makes the notifier fire.
C1_SpoofedNeverPersisted ==
  \A i \in OpIds : Spoofed(ops[i]) => AppendsOf(i) = {} /\ NotifiedOf(i) = {}

\* C2: an inbound EDU whose sender's domain differs from the origin takes no
\* rate limiter token, marks no device list cache stale and starts no resync.
C2_SpoofedNotProcessed ==
  \A i \in OpIds :
    Spoofed(ops[i]) => RatelimitsOf(i) = {} /\ StaleMarksOf(i) = {} /\ ResyncsOf(i) = {}

\* The recipients of a call that are users of another server.
NonLocalRecipients(o) ==
  { k \in DOMAIN o.messages :
      Len(o.messages[k][1]) = 2 /\ o.messages[k][1][2] # "hs" }

\* C3: an inbound EDU with a recipient that is not local fails as a whole:
\* the call never reaches the append, so nothing of it is stored or notified,
\* and it ends in the error once the loop reaches that recipient, wherever
\* the recipient sits and whatever was processed before it.
C3_NonLocalRecipientFailsCall ==
  \A i \in OpIds :
    LET o == ops[i] IN
    (o.kind = "in" /\ NonLocalRecipients(o) # {}) =>
      /\ AppendsOf(i) = {} /\ NotifiedOf(i) = {}
      /\ o.pc \in {"loop", "check", "failed"}
      /\ \E k \in NonLocalRecipients(o) : o.idx <= k

\* A call failed on a non-local recipient after a local one was processed.
C3_Witness ==
  \E i \in OpIds :
    /\ ops[i].kind = "in" /\ ops[i].pc = "failed"
    /\ 2 \in NonLocalRecipients(ops[i])
    /\ ops[i].local_messages # EmptyDict
    /\ AppendsOf(i) = {}

\* C10: one call of _check_for_unknown_devices marks the sender's cache stale
\* and starts a resync exactly when the type is m.room_key_request, the server
\* shares a room with the sender and some requesting_device_id of the contents
\* is not among the cached devices; it then makes one stale mark and starts
\* one resync, both for the sender alone, and otherwise makes neither.
C10_UnknownDevicesMarkedOnce ==
  [][ \A i \in OpIds :
        (ops[i].pc = "check" /\ ops'[i].pc # "check") =>
          LET o == ops[i]
              by_device == o.messages[o.idx][2]
              requested == { by_device[d].requesting_device_id : d \in DOMAIN by_device }
              cached == IF o.sender = Carol THEN {"D1"} ELSE {}
              shares_room == o.sender \in {Carol, Dave}
          IN IF o.message_type = "m.room_key_request" /\ shares_room
                  /\ requested \ cached # {}
               THEN /\ Len(stale_log') = Len(stale_log) + 1
                    /\ stale_log'[Len(stale_log')].user_ids = {o.sender}
                    /\ Len(resyncs') = Len(resyncs) + 1
                    /\ resyncs'[Len(resyncs')].user_ids = {o.sender}
                    /\ resyncs'[Len(resyncs')].state = "running"
                    /\ stale' = stale \cup {o.sender}
               ELSE /\ stale_log' = stale_log /\ resyncs' = resyncs /\ stale' = stale
    ]_vars

\* A call with two unknown devices in one dict made one mark and one resync.
C10_Witness ==
  \E i \in OpIds :
    /\ ops[i].kind = "in" /\ ops[i].pc = "done" /\ Len(ops[i].messages) = 1
    /\ ops[i].sender = Carol /\ ops[i].message_type = RoomKeyRequest
    /\ DOMAIN ops[i].messages[1][2] = {"D1", "D2"}
    /\ Cardinality(StaleMarksOf(i)) = 1 /\ Cardinality(ResyncsOf(i)) = 1

\* C4: the positions handed to the notifier are strictly increasing in the
\* order of the notifier's calls, under any interleaving of the two handlers.
C4_NotifiedStrictlyIncreasing ==
  \A j, k \in DOMAIN notified : j < k => notified[j].pos < notified[k].pos

\* C4, amended: no position is announced twice, and a call that announces the
\* store's latest position (no other append came between its own append and
\* its notification) announces more than every notification before it.
C4_NotifiedIncreasingUnlessOvertaken ==
  \A j, k \in DOMAIN notified :
    j < k =>
      /\ notified[j].pos # notified[k].pos
      /\ notified[k].pos = notified[k].current => notified[j].pos < notified[k].pos

\* An EDU and a local request both notified, the second with the latest position.
C4_Witness ==
  /\ Len(notified) = 2
  /\ ops[notified[1].op].kind # ops[notified[2].op].kind
  /\ notified[2].pos = notified[2].current
  /\ notified[1].pos < notified[2].pos

\* C5: the position given to the notifier is the one the same call's append
\* returned, and that append had completed when the notifier was called: the
\* position had been handed out by then.
C5_NotifiedOwnAppendedPosition ==
  \A k \in DOMAIN notified :
    /\ \E a \in AppendsOf(notified[k].op) : appends[a].pos = notified[k].pos
    /\ notified[k].pos <= notified[k].current
    /\ notified[k].pos >= 1

\* Both handlers have notified, one of them after the other's later append.
C5_Witness ==
  /\ Len(notified) = 2
  /\ ops[notified[1].op].kind = "in" /\ ops[notified[2].op].kind = "out"
  /\ notified[2].pos < notified[2].current

\* The rate limiter answers so far for one bucket.
Answers(key) == { k \in DOMAIN ratelimit_log : ratelimit_log[k].key = key }
Accepted(key) == { k \in Answers(key) : ratelimit_log[k].allowed }

\* The cross-user key request recipients of a local request.
LimitedRecipients(o) ==
  { k \in DOMAIN o.messages :
      o.message_type = "m.room_key_request" /\ o.messages[k][1] # o.sender }

\* A recipient's messages went into the batches of the call.
InBatches(o, k) ==
  LET user_id == o.messages[k][1]
  IN \/ user_id \in DOMAIN o.local_messages
     \/ \E dest \in DOMAIN o.remote_messages : user_id \in DOMAIN o.remote_messages[dest]

\* C9: with rate 0, a bucket lets through exactly as many sends as it holds
\* tokens and drops the rest, under every interleaving: of two concurrent
\* cross-user key requests of one (user, device) against a bucket of one
\* token, one is accepted and one dropped.  Every such recipient of a request
\* is put to the limiter once, and a dropped one is in no batch.
C9_BucketNeverOverdrawn ==
  /\ \A k \in DOMAIN ratelimit_log :
       LET key == ratelimit_log[k].key
           n == Cardinality(Answers(key))
       IN Cardinality(Accepted(key)) = IF n < BurstCount THEN n ELSE BurstCount
  /\ \A i \in OpIds :
       LET o == ops[i] IN
       o.kind = "out" =>
         \A k \in LimitedRecipients(o) :
           k < o.idx =>
             /\ Cardinality({ r \in RatelimitsOf(i) :
                    ratelimit_log[r].user_id = o.messages[k][1] }) = 1
             /\ \A r \in RatelimitsOf(i) :
                  ratelimit_log[r].user_id = o.messages[k][1] =>
                    /\ ratelimit_log[r].key = <<o.sender, o.device_id>>
                    /\ ~ratelimit_log[r].allowed => ~InBatches(o, k)

\* Two concurrent cross-user key requests of alice's device, both finished,
\* one accepted and one dropped.
C9_Witness ==
  /\ \A i \in 1..2 : ops[i].kind = "out" /\ ops[i].pc = "done"
                     /\ LimitedRecipients(ops[i]) = {1}
  /\ Cardinality(Answers(<<Alice, "D1">>)) >= 2
  /\ Cardinality(Accepted(<<Alice, "D1">>)) = BurstCount
  /\ \E i, j \in 1..2 : InBatches(ops[i], 1) /\ ~InBatches(ops[j], 1)

\* A call resumed by the event loop once its append has returned: the
\* reactor runs every coroutine whose awaited result is there.
Fairness ==
  \A i \in OpIds :
    /\ WF_vars(on_direct_to_device_edu_notify(i))
    /\ WF_vars(send_device_message_notify(i))

\* The calls of the fair behaviours: key requests from carol and of alice.
FairInboundEdus ==
  { e \in FewInboundEdus :
      /\ e.sender = Carol /\ e.message_type = RoomKeyRequest
      /\ \A k \in DOMAIN e.messages :
           e.messages[k][1] \in {Alice, Carol} /\ DOMAIN e.messages[k][2] = {"D1", "D2"} }

FairRequests ==
  { r \in OutboundRequests :
      /\ r.message_type = RoomKeyRequest
      /\ \A k \in DOMAIN r.messages : r.messages[k][2]["D1"] = KnownRequest }

NextFair ==
  \/ \E i \in Callers : on_direct_to_device_edu_start(i, FairInboundEdus)
  \/ \E i \in Callers : on_direct_to_device_edu_user(i)
  \/ \E i \in Callers : check_for_unknown_devices(i)
  \/ \E i \in Callers : on_direct_to_device_edu_append(i)
  \/ \E i \in Callers : on_direct_to_device_edu_notify(i)
  \/ \E k \in 1..(MaxCalls * MaxRecipients) : multi_user_device_resync(k)
  \/ \E i \in Callers : send_device_message_start(i, FairRequests)
  \/ \E i \in Callers : send_device_message_user(i)
  \/ \E i \in Callers : send_device_message_device(i)
  \/ \E i \in Callers : send_device_message_delete(i)
  \/ \E i \in Callers : send_device_message_message(i)
  \/ \E i \in Callers : send_device_message_append(i)
  \/ \E i \in Callers : send_device_message_notify(i)

FairSpec == Init /\ [][NextFair]_vars /\ Fairness

\* The notifier calls that carry one position.
Announcements(p) == { k \in DOMAIN notified : notified[k].pos = p }

\* C6: every append that completed is followed, sooner or later, by one
\* notifier call with the position of that append, and never by a second one.
C6_AppendEventuallyNotifiedOnce ==
  \A p \in 1..MaxOps :
    /\ (\E k \in DOMAIN appends : appends[k].pos = p)
         ~> (Cardinality(Announcements(p)) = 1)
    /\ [](Cardinality(Announcements(p)) <= 1)

\* Every call has appended and every append has been announced.
C6_Witness ==
  /\ Len(appends) = MaxCalls
  /\ \A k \in DOMAIN appends : Cardinality(Announcements(appends[k].pos)) = 1
  /\ \E k \in DOMAIN appends : appends[k].call = "add_messages_to_device_inbox"
  /\ \E k \in DOMAIN appends : appends[k].call = "add_messages_from_remote_to_device_inbox"

\* One request of alice to up to MaxFanout recipients, local and on two
\* remote servers, with one or two devices each.
FanoutByDevice ==
  { [d \in {"D1"} |-> Plain], [d \in {"D1", "D2"} |-> IF d = "D1" THEN KnownRequest ELSE Plain] }

FanoutRequests ==
  { [user |-> Alice, device_id |-> "D1", message_type |-> t, messages |-> m] :
      t \in MessageTypes,
      m \in MessagesOver({Alice, Bob, Carol, Dave, Erin}, FanoutByDevice, MaxFanout) }

\* A single call on an empty store: no stored request to delete.
NextFanout ==
  \/ send_device_message_start(1, FanoutRequests)
  \/ send_device_message_user(1)
  \/ send_device_message_device(1)
  \/ send_device_message_message(1)
  \/ send_device_message_append(1)
  \/ send_device_message_notify(1)

SpecFanout == Init /\ [][NextFanout]_vars

\* The (user, device) pairs of a request whose user is local, the (user,
\* device) pairs of a batch, and the domains of a request's remote users.
LocalPairs(o) ==
  UNION { { <<o.messages[k][1], d>> : d \in DOMAIN o.messages[k][2] } :
          k \in { x \in DOMAIN o.messages : o.messages[x][1][2] = "hs" } }
BatchPairs(local_messages) ==
  UNION { { <<u, d>> : d \in DOMAIN local_messages[u] } : u \in DOMAIN local_messages }
RemoteRecipients(o) == { k \in DOMAIN o.messages : o.messages[k][1][2] # "hs" }
RemoteDomains(o) == { o.messages[k][1][2] : k \in RemoteRecipients(o) }

\* Nothing of the call was dropped by the rate limiter or by the dedup.
NothingDropped(i) ==
  /\ \A r \in RatelimitsOf(i) : ratelimit_log[r].allowed
  /\ \A k \in DOMAIN deletes : deletes[k].op = i => ~deletes[k].deleted

\* C7: a request to N (local user, device) pairs and to remote users of M
\* domains, with nothing dropped, gives the store, in one
\* add_messages_to_device_inbox call, N local messages (those of the request,
\* with its type and sender) and M EDUs, one for each domain, each with all
\* the recipients of that domain and a message_id of its own.
C7_LocalMessagesAndOneEduPerDomain ==
  \A a \in DOMAIN appends :
    LET i == appends[a].op
        o == ops[i]
        local == appends[a].local_messages
        edus == appends[a].remote_edu_contents
    IN (appends[a].call = "add_messages_to_device_inbox" /\ NothingDropped(i)) =>
         /\ AppendsOf(i) = {a}
         /\ BatchPairs(local) = LocalPairs(o)
         /\ Cardinality(BatchPairs(local)) = Cardinality(LocalPairs(o))
         /\ \A k \in DOMAIN o.messages :
              \A d \in DOMAIN o.messages[k][2] :
                o.messages[k][1][2] = "hs" =>
                  local[o.messages[k][1]][d] =
                    [content |-> o.messages[k][2][d], type |-> o.message_type,
                     sender |-> o.sender]
         /\ DOMAIN edus = RemoteDomains(o)
         /\ Cardinality(DOMAIN edus) = Cardinality(RemoteDomains(o))
         /\ \A dest \in DOMAIN edus :
              /\ DOMAIN edus[dest].messages =
                   { o.messages[k][1] : k \in { x \in RemoteRecipients(o) :
                                                  o.messages[x][1][2] = dest } }
              /\ \A k \in RemoteRecipients(o) :
                   o.messages[k][1][2] = dest =>
                     edus[dest].messages[o.messages[k][1]] = o.messages[k][2]
              /\ edus[dest].sender = o.sender /\ edus[dest].type = o.message_type
              /\ \A other \in DOMAIN edus :
                   other # dest => edus[other].message_id # edus[dest].message_id
         /\ { r \in device_inbox : r.stream_id = appends[a].pos } =
              InboxRows(local, appends[a].pos)
         /\ { r \in federation_outbox : r.stream_id = appends[a].pos } =
              OutboxRows(edus, appends[a].pos)

\* A request to two devices of a local user and to two remote domains, stored
\* as two local messages and two EDUs.
C7_Witness ==
  \E a \in DOMAIN appends :
    /\ appends[a].call = "add_messages_to_device_inbox"
    /\ NothingDropped(appends[a].op)
    /\ Cardinality(LocalPairs(ops[appends[a].op])) = 2
    /\ Cardinality(DOMAIN appends[a].remote_edu_contents) = 2

\* Key requests and other messages of alice and bob to alice's device D1,
\* with a request id, with an empty one, as request and as cancellation.
DedupByDevice ==
  { [d \in {"D1"} |-> c] :
      c \in {KnownRequest, Cancellation, EmptyIdRequest, EmptyIdCancellation} }

DedupRequests ==
  { [user |-> u, device_id |-> "D2", message_type |-> t, messages |-> m] :
      u \in {Alice}, t \in {RoomKeyRequest},
      m \in MessagesOver({Alice}, DedupByDevice, 1) \ {<<>>} }

\* Requests to one device, interleaved at their awaits.
NextDedup ==
  \/ \E i \in OpIds : send_device_message_start(i, DedupRequests)
  \/ \E i \in OpIds : send_device_message_user(i)
  \/ \E i \in OpIds : send_device_message_device(i)
  \/ \E i \in OpIds : send_device_message_delete(i)
  \/ \E i \in OpIds : send_device_message_message(i)
  \/ \E i \in OpIds : send_device_message_append(i)
  \/ \E i \in OpIds : send_device_message_notify(i)

SpecDedup == Init /\ [][NextDedup]_vars

\* A call that is a user's key request cancellation to their own device D1,
\* and has finished with that device.
SelfCancellationDone(o) ==
  /\ msc3944_enabled
  /\ o.kind = "out" /\ o.message_type = "m.room_key_request"
  /\ Len(o.messages) = 1 /\ o.messages[1][1] = o.sender
  /\ DOMAIN o.messages[1][2] = {"D1"}
  /\ o.messages[1][2]["D1"].action = "request_cancellation"
  /\ o.idx > 1

\* The pending requests the call found for the device that match its
\* (request_id, requesting_device_id).
MatchingPending(o) ==
  { r \in o.seen :
      /\ r.message.type = "m.room_key_request"
      /\ r.message.content.request_id = o.messages[1][2]["D1"].request_id
      /\ r.message.content.requesting_device_id =
           o.messages[1][2]["D1"].requesting_device_id }

\* The cancellation is in the batch the call stores.
CancellationStored(o) ==
  /\ o.sender \in DOMAIN o.local_messages
  /\ "D1" \in DOMAIN o.local_messages[o.sender]

\* C8: with the dedup enabled, a cancellation a user sends to their own device
\* that matches a pending request deletes the request and is not stored; with
\* no matching pending request the cancellation is stored.
C8_CancellationDeletesOrIsStored ==
  \A i \in OpIds :
    LET o == ops[i] IN
    SelfCancellationDone(o) =>
      IF MatchingPending(o) # {}
        THEN /\ ~CancellationStored(o)
             /\ \A r \in MatchingPending(o) : r \notin device_inbox
        ELSE CancellationStored(o)

\* The deletes of a call that removed something.
Removed(i) == { k \in DOMAIN deletes : deletes[k].op = i /\ deletes[k].deleted }

\* Both ids of the cancellation are there and not empty.
IdsGiven(o) ==
  LET c == o.messages[1][2]["D1"]
  IN c.request_id \notin {"None", ""} /\ c.requesting_device_id \notin {"None", ""}

\* C8, amended: with the dedup enabled, a cancellation a user sends to their
\* own device with a non-empty request_id and requesting_device_id has every
\* matching pending request the call found deleted, and is not stored if a
\* delete of the call removed one; it is stored when the call removed none
\* (no match, or another call removed the request first).  With an empty or
\* absent id, nothing is deleted and the cancellation is stored.
C8_CancellationOfNonEmptyIds ==
  \A i \in OpIds :
    LET o == ops[i] IN
    SelfCancellationDone(o) =>
      IF IdsGiven(o)
        THEN /\ \A r \in MatchingPending(o) : r \notin device_inbox
             /\ { deletes[k].stream_id : k \in { x \in DOMAIN deletes : deletes[x].op = i } }
                  = { r.stream_id : r \in MatchingPending(o) }
             /\ CancellationStored(o) <=> Removed(i) = {}
        ELSE /\ CancellationStored(o)
             /\ \A k \in DOMAIN deletes : deletes[k].op # i

\* A cancellation deleted the pending request it matched and was not stored,
\* and another, with no pending request, was stored.
C8_Witness ==
  \E i, j \in OpIds :
    /\ SelfCancellationDone(ops[i]) /\ IdsGiven(ops[i])
    /\ MatchingPending(ops[i]) # {} /\ Removed(i) # {} /\ ~CancellationStored(ops[i])
    /\ ops[i].pc = "done"
    /\ SelfCancellationDone(ops[j]) /\ IdsGiven(ops[j])
    /\ MatchingPending(ops[j]) = {} /\ CancellationStored(ops[j])
    /\ ops[j].pc = "done"

\* ------------------------------------------------------------- failing calls
\* Requests with an unparsable recipient key next to parsable ones, local
\* and remote, and key requests of alice to her own device.
FailingRequests ==
  { [user |-> Alice, device_id |-> "D1", message_type |-> t, messages |-> m] :
      t \in MessageTypes,
      m \in MessagesOver({Alice, Carol, Bogus}, {[d \in {"D1"} |-> KnownRequest]},
                         MaxRecipients) }

\* One EDU of carol to alice: a key request of a device not seen before.
FailingEdus ==
  { e \in FewInboundEdus :
      /\ e.sender = Carol /\ e.message_type = RoomKeyRequest
      /\ Len(e.messages) = 1 /\ e.messages[1][1] = Alice
      /\ DOMAIN e.messages[1][2] = {"D1", "D2"} }

\* Calls of both handlers, interleaved at their awaits, over a store whose
\* append may raise.
NextFailure ==
  \/ \E i \in Callers : on_direct_to_device_edu_start(i, FailingEdus)
  \/ \E i \in Callers : on_direct_to_device_edu_user(i)
  \/ \E i \in Callers : check_for_unknown_devices(i)
  \/ \E k \in 1..MaxCalls : multi_user_device_resync(k)
  \/ \E i \in Callers : on_direct_to_device_edu_append(i)
  \/ \E i \in Callers : on_direct_to_device_edu_append_fails(i)
  \/ \E i \in Callers : on_direct_to_device_edu_notify(i)
  \/ \E i \in Callers : send_device_message_start(i, FailingRequests)
  \/ \E i \in Callers : send_device_message_user(i)
  \/ \E i \in Callers : send_device_message_device(i)
  \/ \E i \in Callers : send_device_message_delete(i)
  \/ \E i \in Callers : send_device_message_message(i)
  \/ \E i \in Callers : send_device_message_append(i)
  \/ \E i \in Callers : send_device_message_append_fails(i)
  \/ \E i \in Callers : send_device_message_notify(i)

SpecFailure == Init /\ [][NextFailure]_vars

\* The entries of a call whose recipient key is not a user id.
UnparsableEntries(o) ==
  { k \in DOMAIN o.messages : Len(o.messages[k][1]) # 2 }

\* The federation sender hints of a call.
HintsOf(i) == { k \in DOMAIN hints : hints[k].op = i }

\* C11 as stated: a send_device_message call with an unparsable recipient key
\* does not end in the error of that key: the entry is passed over and the
\* call goes on to persist its other entries.
C11_UnparsableEntryOnlyExcluded ==
  \A i \in OpIds :
    (ops[i].kind = "out" /\ UnparsableEntries(ops[i]) # {}) => ops[i].pc # "failed"

\* C11, amended: an unparsable recipient key ends the whole send_device_message
\* call in an error when the loop comes to it: the loop gets past such an entry
\* only when the rate limiter dropped it as a cross-user key request, and the
\* failed call has made no store append, no notification and no federation
\* hint, whatever parsable entries came before or after it.
C11_UnparsableEntryFailsCall ==
  \A i \in OpIds :
    LET o == ops[i] IN
    o.kind = "out" =>
      /\ \A k \in UnparsableEntries(o) :
           (o.idx > k \/ AppendsOf(i) # {}) =>
             \E r \in RatelimitsOf(i) :
               /\ ratelimit_log[r].user_id = o.messages[k][1]
               /\ ~ratelimit_log[r].allowed
      /\ o.pc = "failed" =>
           /\ o.idx \in UnparsableEntries(o)
           /\ AppendsOf(i) = {} /\ NotifiedOf(i) = {} /\ HintsOf(i) = {}

\* A call that failed at its second entry, after a parsable first entry that
\* is never persisted.
C11_Witness ==
  \E i \in OpIds :
    /\ ops[i].kind = "out" /\ ops[i].pc = "failed" /\ ops[i].idx = 2
    /\ (ops[i].local_messages # EmptyDict \/ ops[i].remote_messages # EmptyDict)
\* C12: a store append that fails ends the call of either handler in that
\* error: the call made one attempt and no other, the notifier is not called
\* for it and no federation hint is issued for it.
C12_StoreFailureEndsCall ==
  \A i \in OpIds :
    \A a \in AppendsOf(i) :
      appends[a].pos = 0 =>
        /\ ops[i].pc = "store_failed"
        /\ AppendsOf(i) = {a}
        /\ NotifiedOf(i) = {}
        /\ HintsOf(i) = {}

\* Both handlers have ended in a failed append, the outbound one with a remote
\* batch on an instance that runs a federation sender.
C12_Witness ==
  /\ has_federation_sender
  /\ \E i, j \in OpIds :
       /\ ops[i].kind = "in" /\ ops[i].pc = "store_failed"
       /\ ops[i].local_messages # EmptyDict
       /\ ops[j].kind = "out" /\ ops[j].pc = "store_failed"
       /\ ops[j].remote_messages # EmptyDict
       /\ \E a \in AppendsOf(j) : appends[a].pos = 0
\* ------------------------------------------------- the background resync
\* The inbound call is resumed by the reactor whenever the rate limiter or the
\* store has answered its await; nothing is assumed of the background resync,
\* which may end well, end badly or never end.
FairnessInbound ==
  /\ WF_vars(on_direct_to_device_edu_user(1))
  /\ WF_vars(check_for_unknown_devices(1))
  /\ WF_vars(on_direct_to_device_edu_append(1))
  /\ WF_vars(on_direct_to_device_edu_notify(1))

FairSpecInbound == Init /\ [][NextInbound]_vars /\ FairnessInbound

\* Every recipient of the EDU is a user of this server.
AllRecipientsLocal(o) ==
  \A k \in DOMAIN o.messages :
    Len(o.messages[k][1]) = 2 /\ o.messages[k][1][2] = "hs"

\* C13: an on_direct_to_device_edu call whose detector started a resync does
\* not wait for it: with every recipient local the call never ends in an
\* error and goes on to append its batch once, notify once and complete,
\* whether the resync ends well, ends badly or never ends.
C13_ResyncNotAwaited ==
  /\ [](\A i \in OpIds :
          (ops[i].kind = "in" /\ AllRecipientsLocal(ops[i])) => ops[i].pc # "failed")
  /\ \A i \in OpIds :
       (ops[i].kind = "in" /\ AllRecipientsLocal(ops[i]) /\ ResyncsOf(i) # {})
         ~> (/\ ops[i].pc = "done"
             /\ Cardinality(AppendsOf(i)) = 1
             /\ Cardinality(NotifiedOf(i)) = 1)

\* A call that has appended, notified and completed while the resync it
\* started is still running.
C13_Witness ==
  \E i \in OpIds :
    /\ ops[i].kind = "in" /\ ops[i].pc = "done"
    /\ AppendsOf(i) # {} /\ NotifiedOf(i) # {}
    /\ \E a \in ResyncsOf(i) : resyncs[a].state = "running"
\* ------------------------------------------------- inbound rate limiting
\* The entries of a call the rate limiter answered for, by its answer.
AnsweredEntries(i, answer) ==
  { k \in DOMAIN ops[i].messages :
      \E r \in RatelimitsOf(i) :
        /\ ratelimit_log[r].user_id = ops[i].messages[k][1]
        /\ ratelimit_log[r].allowed = answer }

\* C14: in on_direct_to_device_edu the rate limiter is consulted for key
\* requests only; a recipient it disallows is left out of the batch and the
\* unknown-device detector is not run for it, the call does not fail for it,
\* and the batch stored under the EDU's (origin, message_id) holds exactly the
\* recipients with messages that were not disallowed.
C14_OnlyDisallowedRecipientDropped ==
  \A i \in OpIds :
    LET o == ops[i] IN
    o.kind = "in" =>
      /\ o.message_type # "m.room_key_request" => RatelimitsOf(i) = {}
      /\ \A k \in AnsweredEntries(i, FALSE) :
           /\ o.messages[k][1] \notin DOMAIN o.local_messages
           /\ \A m \in StaleMarksOf(i) : stale_log[m].idx # k
           /\ \A m \in ResyncsOf(i) : resyncs[m].idx # k
      /\ (\A k \in DOMAIN o.messages :
            Len(o.messages[k][1]) = 2 /\ o.messages[k][1][2] = "hs")
           => o.pc # "failed"
      /\ \A a \in AppendsOf(i) :
           /\ appends[a].origin = o.origin
           /\ appends[a].message_id = o.message_id
           /\ \A k \in DOMAIN o.messages :
                o.messages[k][1] \in DOMAIN appends[a].local_messages
                  <=> /\ o.messages[k][2] # EmptyDict
                      /\ k \notin AnsweredEntries(i, FALSE)
           /\ \A k \in AnsweredEntries(i, TRUE) :
                DOMAIN appends[a].local_messages[o.messages[k][1]]
                  = DOMAIN o.messages[k][2]

\* A key request EDU for two recipients has been stored: the first recipient
\* was allowed and is in the batch, the second was disallowed and is not.
C14_Witness ==
  \E i \in OpIds :
    /\ ops[i].kind = "in" /\ ops[i].message_type = "m.room_key_request"
    /\ AnsweredEntries(i, TRUE) = {1} /\ AnsweredEntries(i, FALSE) = {2}
    /\ \E a \in AppendsOf(i) :
         DOMAIN appends[a].local_messages = {ops[i].messages[1][1]}
\* ------------------------------------------------- what the dedup deletes
\* Key requests of alice to her own devices: one request that stores a batch
\* of two messages (a key request for D1, another message for D2), and a
\* request and a cancellation for D1 alone.
FrameByDevice ==
  { [d \in {"D1", "D2"} |-> IF d = "D1" THEN KnownRequest ELSE Plain],
    [d \in {"D1"} |-> KnownRequest],
    [d \in {"D1"} |-> Cancellation] }

FrameRequests ==
  { [user |-> Alice, device_id |-> "D3", message_type |-> t, messages |-> m] :
      t \in MessageTypes,
      m \in MessagesOver({Alice}, FrameByDevice, 1) \ {<<>>} }

\* Two calls, interleaved at their awaits.
NextFrame ==
  \/ \E i \in Callers : send_device_message_start(i, FrameRequests)
  \/ \E i \in Callers : send_device_message_user(i)
  \/ \E i \in Callers : send_device_message_device(i)
  \/ \E i \in Callers : send_device_message_delete(i)
  \/ \E i \in Callers : send_device_message_message(i)
  \/ \E i \in Callers : send_device_message_append(i)
  \/ \E i \in Callers : send_device_message_notify(i)

SpecFrame == Init /\ [][NextFrame]_vars

LeftOut(i, k) ==
  LET o == ops[i]
      user_id == o.messages[k][1]
      by_device == o.messages[k][2]
  IN \/ by_device = EmptyDict
     \/ \E r \in RatelimitsOf(i) :
          ratelimit_log[r].user_id = user_id /\ ~ratelimit_log[r].allowed
     \/ o.kind = "out" /\ Len(user_id) = 2 /\ user_id[2] # "hs"
     \/ \E d \in Removed(i) :
          /\ deletes[d].idx = k
          /\ DOMAIN by_device = {deletes[d].device_id}
          /\ by_device[deletes[d].device_id].action = "request_cancellation"

\* C16: every notifier call of either handler names exactly the users that
\* have a message in the batch the same call gave to the store, so none of the
\* recipients left out of the batch; and a completed call has made one append
\* and one notifier call, also when its batch is empty.
C16_NotifiedUsersAreBatchUsers ==
  /\ \A n \in DOMAIN notified :
       LET i == notified[n].op IN
       /\ \E a \in AppendsOf(i) :
            /\ appends[a].pos = notified[n].pos
            /\ notified[n].users =
                 { u \in DOMAIN appends[a].local_messages :
                     DOMAIN appends[a].local_messages[u] # {} }
            /\ notified[n].users = DOMAIN appends[a].local_messages
       /\ \A k \in DOMAIN ops[i].messages :
            LeftOut(i, k) => ops[i].messages[k][1] \notin notified[n].users
  /\ \A i \in OpIds :
       ops[i].pc = "done" =>
         Cardinality(AppendsOf(i)) = 1 /\ Cardinality(NotifiedOf(i)) = 1

\* Two notifier calls: one names no user, for a call whose batch is empty
\* because its cancellation was dropped; the other names a user.
C16_Witness ==
  \E n, m \in DOMAIN notified :
    /\ notified[n].users = {}
    /\ Removed(notified[n].op) # {}
    /\ \E a \in AppendsOf(notified[n].op) : appends[a].local_messages = EmptyDict
    /\ notified[m].users # {}
\* --------------------------------------------------- the federation hints
\* The hints of a call for one destination.
HintsFor(i, destination) ==
  { h \in HintsOf(i) : hints[h].destination = destination }

\* C17: federation_sender.send_device_messages is called by a
\* send_device_message call only when the instance runs a federation sender,
\* only once the call has appended and notified, only for a destination that
\* got an EDU in that append, and never twice for one destination; a completed
\* call on an instance with a federation sender has hinted every such
\* destination once.
C17_HintedOncePerRemoteDestination ==
  \A i \in OpIds :
    /\ \A h \in HintsOf(i) :
         /\ has_federation_sender
         /\ ops[i].kind = "out"
         /\ NotifiedOf(i) # {}
         /\ \E a \in AppendsOf(i) :
              /\ appends[a].pos > 0
              /\ hints[h].destination \in DOMAIN appends[a].remote_edu_contents
         /\ hints[h].destination # "hs"
         /\ Cardinality(HintsFor(i, hints[h].destination)) = 1
    /\ (ops[i].kind = "out" /\ ops[i].pc = "done" /\ has_federation_sender) =>
         \A a \in AppendsOf(i) :
           \A destination \in DOMAIN appends[a].remote_edu_contents :
             Cardinality(HintsFor(i, destination)) = 1
    /\ ops[i].pc \notin {"done"} => HintsOf(i) = {}

\* A completed call to a local user and to users of two remote domains on an
\* instance with a federation sender: two hints, one for each domain.
C17_Witness ==
  \E i \in OpIds :
    /\ has_federation_sender
    /\ ops[i].kind = "out" /\ ops[i].pc = "done"
    /\ ops[i].local_messages # EmptyDict
    /\ DOMAIN ops[i].remote_messages = {"r1", "r2"}
    /\ { hints[h].destination : h \in HintsOf(i) } = {"r1", "r2"}
    /\ Cardinality(HintsOf(i)) = 2
\* ------------------------------------------- one pending request per key
\* Two stored rows are key requests for one device with one
\* (request_id, requesting_device_id).
SameKey(r1, r2) ==
  /\ r1.user_id = r2.user_id /\ r1.device_id = r2.device_id
  /\ r1.message.type = "m.room_key_request" /\ r2.message.type = "m.room_key_request"
  /\ r1.message.content.request_id = r2.message.content.request_id
  /\ r1.message.content.requesting_device_id = r2.message.content.requesting_device_id

\* Every call that has started has completed.
CallsCompleted ==
  \A i \in OpIds : ops[i].pc \in {"none", "done"}

\* C18 as stated: with the dedup enabled, once the calls have completed the
\* store holds at most one pending room_key_request for a
\* (device, request_id, requesting_device_id).
C18_OnePendingRequestPerKey ==
  (msc3944_enabled /\ CallsCompleted) =>
    \A r1, r2 \in device_inbox : SameKey(r1, r2) => r1 = r2

\* The stored key requests, with non-empty ids, that a call found pending
\* for the device when it scanned it for the request it was sending.
MatchesSeen(o) ==
  { x \in o.seen :
      /\ x.message.type = "m.room_key_request"
      /\ x.message.content.request_id = o.messages[1][2]["D1"].request_id
      /\ x.message.content.requesting_device_id
           = o.messages[1][2]["D1"].requesting_device_id
      /\ x.message.content.request_id \notin {"None", ""}
      /\ x.message.content.requesting_device_id \notin {"None", ""} }

\* C18, amended: with the dedup enabled, a call that sent a room_key_request
\* with a non-empty request_id and requesting_device_id to the sender's own
\* device and has appended leaves none of the matching requests that were
\* pending when it scanned the device; so two pending requests for one
\* (device, request_id, requesting_device_id) are both in the store only when
\* the call that stored the later one scanned before the earlier one was
\* appended, or when an id is empty.
C18_PendingRequestsSeenAreGone ==
  msc3944_enabled =>
    /\ \A i \in OpIds :
         (ops[i].kind = "out" /\ ops[i].pc \in {"notify", "done"}) =>
           MatchesSeen(ops[i]) \cap device_inbox = {}
    /\ \A r1, r2 \in device_inbox :
         (/\ SameKey(r1, r2) /\ r1.stream_id < r2.stream_id
          /\ r1.message.content.request_id # ""
          /\ r1.message.content.requesting_device_id # "") =>
           \A a \in DOMAIN appends :
             appends[a].pos = r2.stream_id => r1 \notin ops[appends[a].op].seen

\* A completed call found a matching pending request, which is gone, and its
\* own request is the one pending request for the key.
C18_Witness ==
  /\ msc3944_enabled /\ CallsCompleted
  /\ \E i \in OpIds :
       /\ ops[i].pc = "done" /\ MatchesSeen(ops[i]) # {}
       /\ \E r \in device_inbox :
            /\ r.stream_id = ops[i].last_stream_id
            /\ \A x \in MatchesSeen(ops[i]) : SameKey(x, r)
            /\ \A r2 \in device_inbox : SameKey(r, r2) => r = r2
\* ----------------------------------------------- deletes of a failed call
\* C19: a send_device_message call that has ended in an error, of an
\* unparsable recipient user id or of a failed store append, has deleted no
\* pending message: none of its dedup deletes removed anything.
C19_FailedCallDeletesNothing ==
  \A i \in OpIds :
    (ops[i].kind = "out" /\ ops[i].pc \in {"failed", "store_failed"}) =>
      \A d \in DOMAIN deletes : deletes[d].op = i => ~deletes[d].deleted
\* -------------------------------------------------------------- startup
\* The most EDUs routed in a behaviour.
MaxEdus == 2

\* No instance has started; the configured writers are any instances, at
\* least one.
InitStartup ==
  /\ to_device_writers \in (SUBSET Instances) \ {{}}
  /\ edu_handlers = [n \in Instances |-> NotRegistered]
  /\ routed = <<>>
  /\ ops = [i \in OpIds |-> NoOp]
  /\ device_inbox = {}
  /\ federation_outbox = {}
  /\ stream_pos = 0
  /\ ratelimiter = [k \in {} |-> 0]
  /\ stale = {}
  /\ resyncs = <<>>
  /\ used_ids = {}
  /\ msc3944_enabled \in BOOLEAN
  /\ has_federation_sender \in BOOLEAN
  /\ appends = <<>>
  /\ notified = <<>>
  /\ ratelimit_log = <<>>
  /\ stale_log = <<>>
  /\ deletes = <<>>
  /\ hints = <<>>

\* Lines 44-94: DeviceMessageHandler.__init__ on an instance that starts.
DeviceMessageHandler_init(instance_name) ==
  /\ edu_handlers[instance_name] = NotRegistered
  /\ edu_handlers' = [edu_handlers EXCEPT
       ![instance_name] = register(instance_name, to_device_writers)]
  /\ UNCHANGED <<to_device_writers, routed>>
  /\ UNCHANGED <<ops, device_inbox, federation_outbox, stream_pos, ratelimiter, stale,
                 resyncs, used_ids, msc3944_enabled, has_federation_sender, appends,
                 notified, ratelimit_log, stale_log, deletes, hints>>

\* The instance that runs the handler for an EDU given to a started instance:
\* the instance itself if it registered the handler; with registered
\* instances, one of them, which runs the handler if it has registered it
\* and otherwise nothing does.
HandledOn(instance_name, chosen) ==
  IF edu_handlers[instance_name].kind = "edu_handler" THEN instance_name
  ELSE IF edu_handlers[chosen].kind = "edu_handler" THEN chosen
  ELSE "nowhere"

\* The federation registry of an instance gets a direct-to-device EDU.
on_edu(instance_name) ==
  /\ Len(routed) < MaxEdus
  /\ edu_handlers[instance_name] # NotRegistered
  /\ \E chosen \in (IF edu_handlers[instance_name].kind = "instances"
                      THEN edu_handlers[instance_name].instances
                      ELSE {instance_name}) :
       routed' = Append(routed,
         [arrived |-> instance_name, handled |-> HandledOn(instance_name, chosen)])
  /\ UNCHANGED <<to_device_writers, edu_handlers>>
  /\ UNCHANGED <<ops, device_inbox, federation_outbox, stream_pos, ratelimiter, stale,
                 resyncs, used_ids, msc3944_enabled, has_federation_sender, appends,
                 notified, ratelimit_log, stale_log, deletes, hints>>

\* Instances start in any order while EDUs arrive.
NextStartup ==
  \/ \E n \in Instances : DeviceMessageHandler_init(n)
  \/ \E n \in Instances : on_edu(n)

SpecStartup == InitStartup /\ [][NextStartup]_vars

\* C20: an instance that has started has made exactly one registration for
\* direct-to-device EDUs: on_direct_to_device_edu as the handler if and only
\* if its name is among the configured to-device writers, and otherwise the
\* forwarding to exactly those writers; and every EDU that was handled was
\* handled on a configured writer.
C20_HandlerRegisteredIffWriter ==
  /\ \A n \in Instances :
       edu_handlers[n].kind # "none" =>
         /\ edu_handlers[n].kind \in {"edu_handler", "instances"}
         /\ edu_handlers[n].kind = "edu_handler" <=> n \in to_device_writers
         /\ edu_handlers[n].kind = "edu_handler" =>
              edu_handlers[n].handler = "on_direct_to_device_edu"
         /\ edu_handlers[n].kind = "instances" =>
              edu_handlers[n].instances = to_device_writers
  /\ \A k \in DOMAIN routed :
       routed[k].handled # "nowhere" => routed[k].handled \in to_device_writers

\* One EDU arrived at a writer and was handled there, another arrived at an
\* instance that is no writer and was handled on a writer.
C20_Witness ==
  \E j, k \in DOMAIN routed :
    /\ routed[j].arrived \in to_device_writers
    /\ routed[j].handled = routed[j].arrived
    /\ routed[k].arrived \notin to_device_writers
    /\ routed[k].handled \in to_device_writers
====
